---- MODULE Spec2Model ----
(***************************************************************************)
(* Model of score_record_splitter.py: the split of a scores file on the    *)
(* start marker, the ScoreRecord decoder, the resynchronising main loop,   *)
(* the Scores/Level store and ScoreRecord.detail_breakdown.                *)
(*                                                                         *)
(* Bytes are naturals 0..255, byte strings are sequences of bytes, Python  *)
(* str values are sequences of code points.  A ScoreRecord's `value` is a  *)
(* sequence whose shape depends on val_type: <<n>> for 'int', the IEEE-754 *)
(* fields <<sign, exponent, fraction>> for 'float', the code points for    *)
(* 'string'.                                                               *)
(***************************************************************************)
EXTENDS Integers, Sequences, FiniteSets, TLC

VARIABLES saves, records, idx, recordbuff, scores, stderr, pc, exc, batched_cols

vars == <<saves, records, idx, recordbuff, scores, stderr, pc, exc, batched_cols>>

----------------------------------------------------------------------------
(* Bounds of the model *)

\* number of start markers (hence frames) in the file
MaxFrames == 3

----------------------------------------------------------------------------
(* Byte and text constants *)

\* b'\x7e', the record start marker the file is split on
StartMarker == 126
\* b'{', the record end marker
EndMarker == 123
\* offset of the string length byte inside rest of a name record
NameLenOffset == 9
\* width of a numeric value
NumWidth == 4

txt_seconds == <<115, 101, 99, 111, 110, 100, 115>>
txt_minutes == <<109, 105, 110, 117, 116, 101, 115>>
txt_name == <<110, 97, 109, 101>>
txt_levelbeaten == <<108, 101, 118, 101, 108, 98, 101, 97, 116, 101, 110>>

Min(a, b) == IF a < b THEN a ELSE b
Max(a, b) == IF a < b THEN b ELSE a

\* Python s[i:j] for 0 <= i, 0 <= j (out-of-range bounds are clipped)
PySlice(s, i, j) == SubSeq(s, Min(i, Len(s)) + 1, Min(j, Len(s)))

\* Python s[-n:] for n > 0
PyTail(s, n) == SubSeq(s, Max(Len(s) - n, 0) + 1, Len(s))

\* bytes.rstrip(b'{'): every trailing occurrence is removed
RECURSIVE rstrip(_, _)
rstrip(bs, b) ==
    IF bs # <<>> /\ bs[Len(bs)] = b THEN rstrip(SubSeq(bs, 1, Len(bs) - 1), b)
    ELSE bs

IsCont(b) == b \in 128..191

\* number of bytes of the UTF-8 sequence led by b, 0 for an invalid lead
Utf8SeqLen(b) ==
    IF b < 128 THEN 1
    ELSE IF b \in 194..223 THEN 2
    ELSE IF b \in 224..239 THEN 3
    ELSE IF b \in 240..244 THEN 4
    ELSE 0

\* the strict decoder's constraint on the byte after the lead
Utf8SecondOk(b, c) ==
    CASE b = 224 -> c \in 160..191
      [] b = 237 -> c \in 128..159
      [] b = 240 -> c \in 144..191
      [] b = 244 -> c \in 128..143
      [] OTHER -> IsCont(c)

Utf8CodePoint(bs, n) ==
    CASE n = 1 -> bs[1]
      [] n = 2 -> (bs[1] % 32) * 64 + (bs[2] % 64)
      [] n = 3 -> (bs[1] % 16) * 4096 + (bs[2] % 64) * 64 + (bs[3] % 64)
      [] OTHER -> (bs[1] % 8) * 262144 + (bs[2] % 64) * 4096
                    + (bs[3] % 64) * 64 + (bs[4] % 64)

\* bytes.decode('utf-8'), errors='strict': ok = FALSE is UnicodeDecodeError
RECURSIVE decode(_)
decode(bs) ==
    IF bs = <<>> THEN [ok |-> TRUE, text |-> <<>>]
    ELSE LET n == Utf8SeqLen(bs[1]) IN
         IF \/ n = 0
            \/ Len(bs) < n
            \/ (n >= 2 /\ ~Utf8SecondOk(bs[1], bs[2]))
            \/ (n >= 3 /\ ~IsCont(bs[3]))
            \/ (n >= 4 /\ ~IsCont(bs[4]))
         THEN [ok |-> FALSE, text |-> <<>>]
         ELSE LET r == decode(SubSeq(bs, n + 1, Len(bs))) IN
              [ok |-> r.ok,
               text |-> IF r.ok THEN <<Utf8CodePoint(bs, n)>> \o r.text ELSE <<>>]

\* len(s.encode('utf-8'))
RECURSIVE encoded_len(_)
encoded_len(s) ==
    IF s = <<>> THEN 0
    ELSE (IF s[1] < 128 THEN 1 ELSE IF s[1] < 2048 THEN 2
          ELSE IF s[1] < 65536 THEN 3 ELSE 4) + encoded_len(Tail(s))

\* str.isdecimal() of one character: ASCII digits and the Arabic-Indic
\* digits; the other Unicode Nd blocks lie outside the modelled alphabet
isdecimal(c) == c \in 48..57 \/ c \in 1632..1641

DigitValue(c) == IF c \in 48..57 THEN c - 48 ELSE c - 1632

\* int(s) for a non-empty string of decimal digits; int('') is ValueError
RECURSIVE int(_)
int(s) ==
    IF s = <<>> THEN 0
    ELSE int(SubSeq(s, 1, Len(s) - 1)) * 10 + DigitValue(s[Len(s)])

\* int.from_bytes(bs, byteorder='little'); an empty bs gives 0
RECURSIVE from_bytes(_)
from_bytes(bs) ==
    IF bs = <<>> THEN 0 ELSE bs[1] + 256 * from_bytes(Tail(bs))

\* struct.unpack('<f', bs) of exactly 4 bytes, as the IEEE-754 binary32
\* fields <<sign, biased exponent, fraction>>
unpack_f(bs) ==
    <<bs[4] \div 128,
      (bs[4] % 128) * 2 + (bs[3] \div 128),
      (bs[3] % 128) * 65536 + bs[2] * 256 + bs[1]>>

----------------------------------------------------------------------------
(* ScoreRecord *)

\* the outcome of a ScoreRecord(raw) call that raised exception e
Raised(raw, e, w) ==
    [exc |-> e, why |-> w, raw |-> <<StartMarker>> \o raw, level |-> <<>>,
     label |-> <<>>, rest |-> <<>>, val_type |-> "", value |-> <<>>,
     mid_chunk |-> <<>>, warn |-> <<>>]

\* a constructed ScoreRecord; warn holds what the constructor printed
Built(raw, level, label, rest, val_type, value, warn) ==
    [exc |-> "none", why |-> "", raw |-> <<StartMarker>> \o raw, level |-> level,
     label |-> label, rest |-> rest, val_type |-> val_type, value |-> value,
     mid_chunk |-> PySlice(rest, 0, NameLenOffset), warn |-> warn]

\* the value of i when the enumerate loop over identifier ends: the index
\* of the first non-decimal character, else the last index; -1 when the
\* loop body never ran and i is unbound
LoopIndex(identifier) ==
    IF identifier = <<>> THEN -1
    ELSE IF \E k \in 1..Len(identifier) : ~isdecimal(identifier[k])
    THEN (CHOOSE k \in 1..Len(identifier) :
              /\ ~isdecimal(identifier[k])
              /\ \A j \in 1..(k - 1) : isdecimal(identifier[j])) - 1
    ELSE Len(identifier) - 1

\* the value decode, dispatched on label
DecodeValue(raw, level, label, rest) ==
    IF label \in {txt_seconds, txt_minutes} THEN
        IF Len(PyTail(rest, NumWidth)) # NumWidth
        THEN Raised(raw, "struct.error", "unpack requires a buffer of 4 bytes")
        ELSE Built(raw, level, label, rest, "float",
                   unpack_f(PyTail(rest, NumWidth)), <<>>)
    ELSE IF label = txt_name THEN
        IF Len(rest) <= NameLenOffset
        THEN Raised(raw, "IndexError", "rest[9]")
        ELSE LET lenValue == rest[NameLenOffset + 1]
                 v == decode(PySlice(rest, NameLenOffset + 1,
                                     NameLenOffset + 1 + lenValue))
             IN  IF ~v.ok THEN Raised(raw, "UnicodeDecodeError", "value")
                 ELSE IF Len(v.text) # lenValue
                 THEN Raised(raw, "NameError", "lenvalue")
                 ELSE Built(raw, level, label, rest, "string", v.text, <<>>)
    ELSE LET n == from_bytes(PyTail(rest, NumWidth)) IN
         IF label = txt_levelbeaten /\ level = <<>>
         THEN Raised(raw, "ValueError", "int(level)")
         ELSE Built(raw, level, label, rest, "int", <<n>>,
                    IF label = txt_levelbeaten /\ n # int(level)
                    THEN <<"levelbeaten value does not match">> ELSE <<>>)

\* ScoreRecord.__init__
ScoreRecord(raw) ==
    LET stripped == rstrip(raw, EndMarker) IN
    IF stripped = raw THEN Raised(raw, "ValueError", "no end marker")
    ELSE IF stripped = <<>> THEN Raised(raw, "IndexError", "raw[0]")
    ELSE LET identifierLen == stripped[1]
             d == decode(PySlice(stripped, 1, 1 + identifierLen))
         IN  IF ~d.ok THEN Raised(raw, "UnicodeDecodeError", "identifier")
             ELSE LET identifier == d.text
                      i == LoopIndex(identifier)
                  IN  IF i = -1 THEN Raised(raw, "UnboundLocalError", "i")
                      ELSE DecodeValue(raw,
                                       PySlice(identifier, 0, i),
                                       PySlice(identifier, i, Len(identifier)),
                                       PySlice(stripped, 1 + identifierLen,
                                               Len(stripped)))

\* the exception classes the main loop's `except ValueError` catches
IsValueError(e) == e \in {"ValueError", "UnicodeDecodeError"}

\* ScoreRecord.detail_breakdown: the columns as [readable, raw_len, raw_slice];
\* the hex and decimal rows are renderings of raw_slice
detail_breakdown(self) ==
    LET parsed_start ==
            << [readable |-> "^", raw_len |-> 1],
               [readable |-> "s:", raw_len |-> 1],
               [readable |-> "level", raw_len |-> encoded_len(self.level)],
               [readable |-> "label", raw_len |-> encoded_len(self.label)] >>
        parsed_end ==
            << [readable |-> "value",
                raw_len |-> IF self.val_type \in {"float", "int"} THEN NumWidth
                            ELSE encoded_len(self.value) + 1],
               [readable |-> "$", raw_len |-> 1] >>
        accounted_for ==
            parsed_start[1].raw_len + parsed_start[2].raw_len
              + parsed_start[3].raw_len + parsed_start[4].raw_len
              + parsed_end[1].raw_len + parsed_end[2].raw_len
        detail ==
            parsed_start
              \o (IF accounted_for < Len(self.raw)
                  THEN << [readable |-> "?",
                           raw_len |-> Len(self.raw) - accounted_for] >>
                  ELSE <<>>)
              \o parsed_end
        start[k \in 1..(Len(detail) + 1)] ==
            IF k = 1 THEN 0 ELSE start[k - 1] + detail[k - 1].raw_len
    IN  [c_i \in 1..Len(detail) |->
            [readable |-> detail[c_i].readable,
             raw_len |-> detail[c_i].raw_len,
             raw_slice |-> PySlice(self.raw, start[c_i], start[c_i + 1])]]

----------------------------------------------------------------------------
(* Level and Scores *)

\* Level.__init__; name is <<>> for None, <<value>> once set
Level(record) ==
    [id |-> record.level, scores |-> <<record>>,
     name |-> IF record.label = txt_name THEN <<record.value>> ELSE <<>>]

\* Level.add_record: the level after the call and the exception it raised
Level_add_record(self, record) ==
    LET appended == [self EXCEPT !.scores = Append(@, record)] IN
    IF record.label = txt_name
    THEN IF self.name # <<>>
         THEN [exc |-> "ValueError", level |-> appended]
         ELSE [exc |-> "none",
               level |-> [appended EXCEPT !.name = <<record.value>>]]
    ELSE [exc |-> "none", level |-> appended]

\* Scores.add_record on the dict kept as the sequence of its values in
\* insertion order
Scores_add_record(levels, record) ==
    IF \E k \in 1..Len(levels) : levels[k].id = record.level
    THEN LET k == CHOOSE j \in 1..Len(levels) : levels[j].id = record.level
             r == Level_add_record(levels[k], record)
         IN  [exc |-> r.exc, levels |-> [levels EXCEPT ![k] = r.level]]
    ELSE [exc |-> "none", levels |-> Append(levels, Level(record))]

\* one step of a stable sort on key int(x.id)
RECURSIVE InsertByKey(_, _)
InsertByKey(sorted, x) ==
    IF sorted = <<>> THEN <<x>>
    ELSE IF int(sorted[Len(sorted)].id) <= int(x.id) THEN Append(sorted, x)
    ELSE Append(InsertByKey(SubSeq(sorted, 1, Len(sorted) - 1), x),
                sorted[Len(sorted)])

\* Scores.__sorted_levels
RECURSIVE sorted_levels(_)
sorted_levels(levels) ==
    IF levels = <<>> THEN <<>>
    ELSE InsertByKey(sorted_levels(SubSeq(levels, 1, Len(levels) - 1)),
                     levels[Len(levels)])

\* int(x.id) raises ValueError for an empty id
SortRaises(levels) == \E k \in 1..Len(levels) : levels[k].id = <<>>

\* get_levels returning the dict's values as they were inserted, unsorted
get_levels_unsorted(levels) == levels

\* Scores.get_levels
get_levels(levels) == sorted_levels(levels)

----------------------------------------------------------------------------
(* The input files *)

\* nine bytes in front of the length byte of a name record
Filler == <<1, 1, 1, 1, 1, 1, 1, 1, 1>>

id_3name == <<5, 51>> \o txt_name

\* The pieces a file is made of.  Each is a byte string free of the start
\* marker; a file is any sequence of them, each behind a start marker.
Chunks ==
    { id_3name \o Filler \o <<2, 97, 98, EndMarker>>,      \* 3name = "ab"
      id_3name \o Filler \o <<2, 195, 169, EndMarker>>,    \* 3name, 2 bytes, 1 char
      id_3name \o Filler \o <<3, 97>>,                     \* 3name = "a", cut short
      <<97>>,                                              \* "a"
      <<98, 0, EndMarker>>,                                \* "b", a byte, an end marker
      <<3, 49, 48, 120, 1, 0, 0, 0, EndMarker>>,           \* 10x = 1
      <<2, 50, 120, 2, 0, 0, 0, EndMarker>>,               \* 2x = 2
      <<2, 50, 120, EndMarker>>,                           \* 2x, no value bytes
      <<3, 48, 50, 120, 0, 0, 0, 0, EndMarker>>,           \* 02x = 0
      <<8, 51>> \o txt_seconds \o <<1, 0, 0, 0, EndMarker, EndMarker>>,
      <<12, 52>> \o txt_levelbeaten \o <<3, 0, 0, 0, EndMarker>>,
      <<2, 49, 50, 1, 0, 0, 0, EndMarker>>,                \* identifier "12"
      <<0, 1, 0, 0, 0, EndMarker>>,                        \* empty identifier
      <<1, 120, 1, 0, 0, 0, EndMarker>>,                   \* identifier "x"
      <<1, 255, EndMarker>>,                               \* identifier not UTF-8
      <<EndMarker>> }                                      \* nothing but an end marker

\* the file holding the frames fs, each behind a start marker
RECURSIVE FileOf(_)
FileOf(fs) ==
    IF fs = <<>> THEN <<>> ELSE <<StartMarker>> \o fs[1] \o FileOf(Tail(fs))

\* what may stand in front of the first start marker
Preambles == { <<>>, <<0>> }


\* bytes.split(sep) for a one-byte separator
RECURSIVE split(_, _)
split(bs, sep) ==
    IF \A k \in 1..Len(bs) : bs[k] # sep THEN <<bs>>
    ELSE LET k == CHOOSE j \in 1..Len(bs) :
                      bs[j] = sep /\ \A h \in 1..(j - 1) : bs[h] # sep
         IN  <<SubSeq(bs, 1, k - 1)>> \o split(SubSeq(bs, k + 1, Len(bs)), sep)

\* split_scores on the bytes read from the file: the first slice is dropped
split_scores(bytes) == Tail(split(bytes, StartMarker))

----------------------------------------------------------------------------
(* __main__ *)

Init ==
    /\ \E n \in 0..MaxFrames : \E pre \in Preambles, fs \in [1..n -> Chunks] :
          saves = pre \o FileOf(fs)
    /\ records = split_scores(saves)
    /\ idx = 0
    /\ recordbuff = <<>>
    /\ scores = <<>>
    /\ stderr = <<>>
    /\ pc = "loop"
    /\ exc = "none"
    /\ batched_cols = <<>>

\* the frame the loop body hands to ScoreRecord
Merged == IF Len(recordbuff) > 0 THEN recordbuff \o records[idx + 1]
          ELSE records[idx + 1]

\* One iteration of `for raw in records`.
Step ==
    /\ pc = "loop"
    /\ idx < Len(records)
    /\ LET raw == Merged
           record == ScoreRecord(raw)
           added == Scores_add_record(scores, record)
       IN  IF record.exc = "none" THEN
               \* recordbuff was reset before scores.add_record ran
               /\ scores' = added.levels
               /\ IF added.exc = "none"
                  THEN /\ recordbuff' = <<>>
                       /\ stderr' = stderr \o record.warn
                  ELSE /\ recordbuff' = raw
                       /\ stderr' = stderr \o record.warn \o <<"Got truncated record">>
               /\ idx' = idx + 1
               /\ UNCHANGED <<pc, exc>>
           ELSE IF IsValueError(record.exc) THEN
               /\ recordbuff' = recordbuff \o raw
               /\ stderr' = Append(stderr, "Got truncated record")
               /\ idx' = idx + 1
               /\ UNCHANGED <<scores, pc, exc>>
           ELSE
               /\ pc' = "crashed"
               /\ exc' = record.exc
               /\ UNCHANGED <<idx, recordbuff, scores, stderr>>
    /\ UNCHANGED <<saves, records, batched_cols>>

\* After the loop: batched_cols is built from get_levels() and handed to
\* print_detail, whose max() raises ValueError when there is no record.
Report ==
    /\ pc = "loop"
    /\ idx = Len(records)
    /\ IF SortRaises(scores) \/ scores = <<>>
       THEN /\ pc' = "crashed"
            /\ exc' = "ValueError"
            /\ UNCHANGED batched_cols
       ELSE /\ LET ls == get_levels(scores)
                   rs[k \in 0..Len(ls)] ==
                       IF k = 0 THEN <<>> ELSE rs[k - 1] \o ls[k].scores
               IN  batched_cols' =
                       [j \in 1..Len(rs[Len(ls)]) |-> detail_breakdown(rs[Len(ls)][j])]
            /\ pc' = "done"
            /\ UNCHANGED exc
    /\ UNCHANGED <<saves, records, idx, recordbuff, scores, stderr>>

Next == Step \/ Report

Spec == Init /\ [][Next]_vars

----------------------------------------------------------------------------
(* Properties *)

\* the records held by the store
RecordsOf(levels) ==
    UNION { { levels[k].scores[j] : j \in 1..Len(levels[k].scores) } :
            k \in 1..Len(levels) }

RECURSIVE CountRecords(_)
CountRecords(levels) ==
    IF levels = <<>> THEN 0
    ELSE Len(levels[1].scores) + CountRecords(Tail(levels))

\* the loop is about to handle a frame
AtFrame == pc = "loop" /\ idx < Len(records)

\* the pass is over: the loop ran out of frames or an exception left it
PassOver == pc # "loop" \/ idx = Len(records)

\* the identifier field of a frame, read as the decoder reads it
IdentifierOf(frame) ==
    LET stripped == rstrip(frame, EndMarker) IN
    decode(PySlice(stripped, 1, 1 + stripped[1]))

\* the longest prefix of s made of decimal digits
DigitRun(s) ==
    LET ks == { k \in 0..Len(s) : \A j \in 1..k : isdecimal(s[j]) } IN
    SubSeq(s, 1, CHOOSE k \in ks : \A h \in ks : h <= k)

\* frame is a name frame with an end marker: its rest and declared string
IsNameFrame(frame) ==
    LET stripped == rstrip(frame, EndMarker) IN
    /\ stripped # frame
    /\ stripped # <<>>
    /\ IdentifierOf(frame).ok
    /\ LET identifier == IdentifierOf(frame).text IN
       SubSeq(identifier, Len(DigitRun(identifier)) + 1, Len(identifier)) = txt_name
    /\ Len(stripped) - Min(1 + stripped[1], Len(stripped)) > NameLenOffset

NameRest(frame) ==
    LET stripped == rstrip(frame, EndMarker) IN
    PySlice(stripped, 1 + stripped[1], Len(stripped))

NameString(frame) ==
    decode(PySlice(NameRest(frame), NameLenOffset + 1,
                   NameLenOffset + 1 + NameRest(frame)[NameLenOffset + 1]))

----------------------------------------------------------------------------
\* C1: a frame F = p1 ++ [0x7E] ++ p2 whose only embedded start marker lies
\* inside the string of a name record, fed through the loop as the pieces
\* p1 and p2, yields exactly one record, equal in level, label, value, rest
\* and raw to ScoreRecord(F).
C1_Unsplit == records[1] \o <<StartMarker>> \o records[2]

C1_Case ==
    /\ Len(records) = 2
    /\ records[1] # <<>> /\ records[1][Len(records[1])] # EndMarker
    /\ records[2] # <<>> /\ records[2][Len(records[2])] = EndMarker
    /\ IsNameFrame(C1_Unsplit)
    /\ NameString(C1_Unsplit).ok
    /\ ScoreRecord(C1_Unsplit).exc = "none"
    /\ LET first == 1 + C1_Unsplit[1] + NameLenOffset + 1
           lenValue == NameRest(C1_Unsplit)[NameLenOffset + 1]
       IN  Len(records[1]) + 1 \in (first + 1)..(first + lenValue)

C1_ResyncEqualsUnsplit ==
    (C1_Case /\ PassOver) =>
        /\ CountRecords(scores) = 1
        /\ \A r \in RecordsOf(scores) :
              LET d == ScoreRecord(C1_Unsplit) IN
              /\ d.exc = "none"
              /\ r.level = d.level /\ r.label = d.label /\ r.value = d.value
              /\ r.rest = d.rest /\ r.raw = d.raw

\* C2: when the decoded record is a name record for a level that has a
\* name already, the pass halts on the error: it does not go on to the next
\* frame and the frame is not put into the buffer.
C2_DuplicateNameHalts ==
    [][ ( /\ AtFrame
          /\ ScoreRecord(Merged).exc = "none"
          /\ ScoreRecord(Merged).label = txt_name
          /\ \E k \in 1..Len(scores) :
                scores[k].id = ScoreRecord(Merged).level /\ scores[k].name # <<>> )
        => ( /\ pc' = "crashed"
             /\ idx' = idx
             /\ recordbuff' \in {<<>>, recordbuff} ) ]_vars

\* C3: whenever every stored level id is numeric, get_levels() returns each
\* stored Level exactly once, in non-decreasing order of int(id).
C3_LevelsInNumericOrder ==
    ~SortRaises(scores) =>
        LET out == get_levels(scores) IN
        /\ Len(out) = Len(scores)
        /\ \A k \in 1..Len(scores) :
              Cardinality({ j \in 1..Len(out) : out[j] = scores[k] }) = 1
        /\ \A j \in 1..(Len(out) - 1) : int(out[j].id) <= int(out[j + 1].id)

\* level "10" was inserted before level "2" and comes after it in get_levels()
C3_Witness ==
    /\ ~SortRaises(scores)
    /\ \E a, b \in 1..Len(scores) :
          /\ a < b
          /\ scores[a].id = <<49, 48>>
          /\ scores[b].id = <<50>>
          /\ LET out == get_levels(scores) IN
             \E i, j \in 1..Len(out) :
                 i < j /\ out[i] = scores[b] /\ out[j] = scores[a]

\* C4: a name frame whose decoded string has a character count other than
\* the declared length byte is decoded all the same: the loop goes on to the
\* next frame, no exception leaves it, a warning is printed and the record
\* is stored with the decoded string as its value.
C4_LengthMismatchIsWarning ==
    [][ ( /\ AtFrame
          /\ IsNameFrame(Merged)
          /\ NameString(Merged).ok
          /\ Len(NameString(Merged).text) # NameRest(Merged)[NameLenOffset + 1] )
        => ( /\ pc' = "loop"
             /\ exc' = "none"
             /\ idx' = idx + 1
             /\ Len(stderr') > Len(stderr)
             /\ \E r \in RecordsOf(scores') :
                   /\ r.raw = <<StartMarker>> \o Merged
                   /\ r.value = NameString(Merged).text ) ]_vars

\* C5: for every decoded record the raw_len of the detail_breakdown columns
\* sum to len(raw), and the raw slices laid end to end are raw.
RECURSIVE SumLens(_)
SumLens(cols) ==
    IF cols = <<>> THEN 0 ELSE cols[1].raw_len + SumLens(Tail(cols))

RECURSIVE JoinSlices(_)
JoinSlices(cols) ==
    IF cols = <<>> THEN <<>> ELSE cols[1].raw_slice \o JoinSlices(Tail(cols))

C5_SegmentsPartitionRaw ==
    \A r \in RecordsOf(scores) :
        /\ SumLens(detail_breakdown(r)) = Len(r.raw)
        /\ JoinSlices(detail_breakdown(r)) = r.raw

\* struct.pack('<f', v): the binary32 fields back to 4 little-endian bytes
pack_f(v) ==
    <<v[3] % 256,
      (v[3] \div 256) % 256,
      (v[2] % 2) * 128 + (v[3] \div 65536),
      v[1] * 128 + (v[2] \div 2)>>

\* n.to_bytes(4, byteorder='little')
to_bytes4(n) ==
    <<n % 256, (n \div 256) % 256, (n \div 65536) % 256, (n \div 16777216) % 256>>

\* C6: for a frame with a recognized numeric label, at least 4 value bytes
\* and one end marker behind them, the decoded value re-encoded as 4
\* little-endian bytes is the 4 bytes in front of that end marker.
C6_ValueRoundTrip ==
    \A r \in RecordsOf(scores) :
        ( /\ r.label \in {txt_seconds, txt_minutes, txt_levelbeaten}
          /\ Len(r.raw) >= 2 + r.raw[2] + NumWidth + 1 )
        => (IF r.val_type = "float" THEN pack_f(r.value) ELSE to_bytes4(r.value[1]))
              = SubSeq(r.raw, Len(r.raw) - NumWidth, Len(r.raw) - 1)

\* C7: a frame that has its end marker and fails to decode is never
\* buffered: its exception leaves the loop.
C7_OnlyIncompleteFrameBuffers ==
    [][ ( /\ AtFrame
          /\ rstrip(Merged, EndMarker) # Merged
          /\ ScoreRecord(Merged).exc # "none" )
        => ( /\ pc' = "crashed"
             /\ exc' = ScoreRecord(Merged).exc
             /\ idx' = idx
             /\ recordbuff' = recordbuff ) ]_vars

\* C8: while buffering, a frame whose merged decode attempt fails is
\* appended to the buffer once, and a record decoded from the merged bytes
\* has raw = 0x7E ++ buffer ++ frame.
C8_FailedFrameAppendedOnce ==
    [][ ( AtFrame /\ Len(recordbuff) > 0 /\ pc' = "loop" )
        => IF ScoreRecord(Merged).exc # "none"
           THEN recordbuff' = recordbuff \o records[idx + 1]
           ELSE \E r \in RecordsOf(scores') :
                   r.raw = <<StartMarker>> \o recordbuff \o records[idx + 1] ]_vars

\* C9: a frame whose identifier can be read never makes the decoder fail on
\* the identifier split, and every decoded record has level = the longest
\* leading run of decimal digits of the identifier and label = what follows.
C9_IdentifierSplit ==
    /\ exc # "UnboundLocalError"
    /\ \A r \in RecordsOf(scores) :
          LET identifier == IdentifierOf(Tail(r.raw)).text IN
          /\ r.level = DigitRun(identifier)
          /\ r.level \o r.label = identifier
          /\ r.label = <<>> \/ ~isdecimal(r.label[1])

\* C10: no Level holds more than one record labelled "name".
C10_AtMostOneNameRecord ==
    \A k \in 1..Len(scores) :
        Cardinality({ j \in 1..Len(scores[k].scores) :
                          scores[k].scores[j].label = txt_name }) <= 1

====
